---- MODULE Spec2Model ----
(***************************************************************************)
(* The PTY session manager of agentsmonitor-tauri (src-tauri/src/pty/      *)
(* manager.rs) as a state machine.                                         *)
(*                                                                         *)
(* The registry `sessions` is a HashMap behind one tokio Mutex.  Callers   *)
(* are concurrent tasks, each running one manager call at a time.  A call  *)
(* that keeps the MutexGuard across an .await (terminate) is several       *)
(* steps taken with `lock` held, one per stretch of code between awaits;   *)
(* a call whose whole body runs under the guard without awaiting (write,   *)
(* resize, is_running, cleanup_finished, the insert of spawn) is one step  *)
(* taken when the lock is free.  What terminate does to a child is kept,   *)
(* in program order, in `tlog`.                                            *)
(*                                                                         *)
(* Every launch creates a new OS child, numbered 1, 2, ... in launch       *)
(* order; the writer, the reader task, the child handle and the master     *)
(* PTY of a TerminalSession all belong to that launch.  The child's pid    *)
(* is taken to be known (process_id() is Some for a child launched by the  *)
(* native PTY system on unix).                                             *)
(*                                                                         *)
(* Spec is the manager: its calls, interleaved, and the children.  What a  *)
(* reader task does inside (the batching loop of lines 108-142) does not   *)
(* touch the registry and is followed separately, for one reader task, in  *)
(* SpecReader; in Spec a reader task is only "running" or "aborted".       *)
(* SpecStreaming runs a reader task beside the manager's calls, SpecLive   *)
(* is Spec under the runtime's scheduling, SpecWrite follows write one     *)
(* write(2) at a time, and SpecResolve is AgentResolver::resolve           *)
(* (services/agent_resolver.rs) over the file systems it may meet.         *)
(***************************************************************************)
EXTENDS Integers, FiniteSets, Sequences, TLC

\* Session identifiers the callers use (Uuid).
Ids == {"A", "B"}
\* Concurrent callers of the manager (tauri command tasks).
Callers == {"t1", "t2"}
\* Launches (spawn_command successes) in one run.
MaxChildren == 2
Children == 1..MaxChildren
\* AgentType: Codex gets the cursor-position workaround, the others do not.
AgentTypes == {"Codex", "Custom"}
NoLock == "none"

VARIABLES
    sessions,   \* the registry: a function from the registered ids to TerminalSession
    lock,       \* the holder of the registry Mutex, or NoLock
    proc,       \* the OS children: "none" (not launched), "running" or "exited"
    batcher,    \* the reader tasks: "none" (not started), "running", or "aborted"
                \* once abort() was called on its JoinHandle
    tlog,       \* per child, what terminate did to it, in order
    nextChild,  \* launches so far
    pc,         \* each caller's position
    req,        \* each caller's arguments: id, agent; dup: the registry held an entry
                \* for id when spawn was called; gone: the call that returned last
                \* before this spawn had taken id out of the registry
    held,       \* the child of the TerminalSession a caller owns outside the registry,
                \* or borrows from it under the guard (0: none)
    spawned,    \* the ids passed to spawn so far
    last,       \* the latest outcome of a call (or of spawn's insert)
    rtask,      \* one reader task, looked at from inside: "none" (not started),
                \* "reading" (in the loop, blocked in reader.read), or how the loop
                \* ended: "eof", "error"
    rid,        \* the session_id the reader task's closure captured
    rchild,     \* the child whose PTY the reader task reads (0: a reader task
                \* followed on its own, whatever its child)
    batch,      \* batch.len(), the bytes read and not yet emitted
    elapsed,    \* last_emit.elapsed() in ms, counted up to BATCH_INTERVAL_MS + 1
    emitted,    \* the events the reader task has emitted, in order
    reads,      \* the byte counts the task's reads returned, in order
    content,    \* what batch holds: the chunks read and not yet emitted, in order,
                \* the k-th read's bytes being the chunk [k, n]
    payloads,   \* the data of the output events emitted, in order, in chunks
    rin,        \* one call of AgentResolver::resolve: its arguments and the file
                \* system it runs on
    rout,       \* that call's state: done, and the Option<PathBuf> it returned
    wire        \* per child, what has reached its PTY's input stream, in order, where
                \* write is followed one write(2) at a time: <<caller, part>>

managerVars == <<sessions, lock, proc, batcher, tlog, nextChild, pc, req, held, spawned, last>>

readerVars == <<rtask, rid, rchild, batch, elapsed, emitted, reads, content, payloads>>

resolverVars == <<rin, rout>>

\* What neither the manager's calls nor the reader task touch.
writerVars == <<wire>>

asideVars == <<resolverVars, writerVars>>

vars == <<sessions, lock, proc, batcher, tlog, nextChild, pc, req, held, spawned, last,
          rtask, rid, rchild, batch, elapsed, emitted, reads, content, payloads,
          rin, rout, wire>>

\* No resolve call is followed.
NoCall == [agent |-> "-", override |-> {}, files |-> << >>, which |-> << >>]

NoReq == [id |-> "-", agent |-> "-", dup |-> FALSE, gone |-> FALSE]

TerminalSession(id, c) ==
    [session_id |-> id, writer |-> c, reader_task |-> c, child |-> c, master_pty |-> c]

Registered == DOMAIN sessions

\* ids: the ids the call took out of the registry; wrote: the result of the write
\* spawn made and discarded ("-": it made none); sent: the PtySize the call passed
\* to master_pty.resize (empty: it made no such call); on: the children whose
\* handles (writer, master PTY, child, reader task) the call used.
Outcome(op, id, res) ==
    [op |-> op, id |-> id, res |-> res, ids |-> {}, wrote |-> "-", sent |-> {}, on |-> {}]

\* The lookup finding the first session of the map, whatever the id.
HandleOfFirst(map, id, field) ==
    IF id \in DOMAIN map THEN {map[CHOOSE k \in DOMAIN map : TRUE][field]} ELSE {}

\* sessions.get(&session_id) / get_mut(&session_id) and the handle of the session
\* found that the call goes on to use: none for an id without entry.
Handle(map, id, field) == IF id \in DOMAIN map THEN {map[id][field]} ELSE {}

\* PtyManager::new() (lines 45-49): an empty registry; no child, no call, no
\* reader task yet.
Fresh ==
    /\ sessions = << >>
    /\ lock = NoLock
    /\ proc = [c \in Children |-> "none"]
    /\ batcher = [c \in Children |-> "none"]
    /\ tlog = [c \in Children |-> << >>]
    /\ nextChild = 0
    /\ pc = [t \in Callers |-> "idle"]
    /\ req = [t \in Callers |-> NoReq]
    /\ held = [t \in Callers |-> 0]
    /\ spawned = {}
    /\ last = Outcome("none", "-", "-")
    /\ rtask = "none"
    /\ rid = "-"
    /\ rchild = 0
    /\ batch = 0
    /\ elapsed = 0
    /\ emitted = << >>
    /\ reads = << >>
    /\ content = << >>
    /\ payloads = << >>
    /\ wire = [c \in Children |-> << >>]

Init ==
    /\ Fresh
    /\ rin = NoCall
    /\ rout = [done |-> FALSE, path |-> {}]

(***************************************************************************)
(* spawn                                                                   *)
(***************************************************************************)

Return(t, out) ==
    /\ pc' = [pc EXCEPT ![t] = "idle"]
    /\ req' = [req EXCEPT ![t] = NoReq]
    /\ held' = [held EXCEPT ![t] = 0]
    /\ last' = out

\* A call made by some idle caller returns `out` within the step; the callers
\* being alike, who made it is not recorded.
Answer(out) ==
    /\ \E t \in Callers : pc[t] = "idle"
    /\ last' = out
    /\ UNCHANGED <<pc, req, held>>

\* spawn_command succeeded: a new OS child runs on the PTY slave.
Launch(c) ==
    /\ nextChild < MaxChildren
    /\ c = nextChild + 1
    /\ nextChild' = c
    /\ proc' = [proc EXCEPT ![c] = "running"]

\* AgentResolver::resolve yields None: ExecutableNotFound, before any PTY exists.
SpawnNoExecutable(id) ==
    /\ spawned' = spawned \cup {id}
    /\ Answer(Outcome("spawn", id, "ExecutableNotFound"))
    /\ UNCHANGED <<sessions, lock, proc, batcher, tlog, nextChild>>
    /\ UNCHANGED <<readerVars, asideVars>>

\* openpty fails: Pty, nothing launched.
SpawnOpenPtyFails(id) ==
    /\ spawned' = spawned \cup {id}
    /\ Answer(Outcome("spawn", id, "Pty"))
    /\ UNCHANGED <<sessions, lock, proc, batcher, tlog, nextChild>>
    /\ UNCHANGED <<readerVars, asideVars>>

\* spawn_command fails: SpawnFailed, the PTY pair is dropped.
SpawnLaunchFails(id) ==
    /\ spawned' = spawned \cup {id}
    /\ Answer(Outcome("spawn", id, "SpawnFailed"))
    /\ UNCHANGED <<sessions, lock, proc, batcher, tlog, nextChild>>
    /\ UNCHANGED <<readerVars, asideVars>>

\* The split failing only after the reader task was started.
SpawnSplitFailsAfterReader(id) ==
    /\ spawned' = spawned \cup {id}
    /\ \E c \in Children : Launch(c) /\ batcher' = [batcher EXCEPT ![c] = "running"]
    /\ Answer(Outcome("spawn", id, "Pty"))
    /\ UNCHANGED <<sessions, lock, tlog>>
    /\ UNCHANGED <<readerVars, asideVars>>

\* try_clone_reader or take_writer fails after the child was launched: Pty; the
\* child handle is dropped (which does not kill the child), no reader task starts.
SpawnSplitFails(id) ==
    /\ spawned' = spawned \cup {id}
    /\ \E c \in Children : Launch(c)
    /\ Answer(Outcome("spawn", id, "Pty"))
    /\ UNCHANGED <<sessions, lock, batcher, tlog>>
    /\ UNCHANGED <<readerVars, asideVars>>

\* Lines 59-151: resolve, openpty, spawn_command, reader/writer split and
\* spawn_blocking all succeed; the TerminalSession is built, not yet inserted.
SpawnLaunched(t, id, agent) ==
    /\ pc[t] = "idle"
    /\ spawned' = spawned \cup {id}
    /\ \E c \in Children :
          /\ Launch(c)
          /\ batcher' = [batcher EXCEPT ![c] = "running"]
          /\ held' = [held EXCEPT ![t] = c]
    /\ pc' = [pc EXCEPT ![t] = "sp_insert"]
    /\ req' = [req EXCEPT ![t] = [id |-> id, agent |-> agent, dup |-> id \in Registered,
                                  gone |-> id \in last.ids]]
    /\ UNCHANGED <<sessions, lock, tlog, last>>
    /\ UNCHANGED <<readerVars, asideVars>>

\* HashMap::insert: adds the entry, or replaces the one already under the key
\* (the old TerminalSession is dropped: no signal, no abort).
Insert(map, id, session) ==
    [k \in DOMAIN map \cup {id} |-> IF k = id THEN session ELSE map[k]]

\* The insert with its guard bound to a variable that lives to the end of spawn.
SpawnInsertKeepsGuard(t) ==
    /\ pc[t] = "sp_insert"
    /\ lock = NoLock
    /\ sessions' = Insert(sessions, req[t].id, TerminalSession(req[t].id, held[t]))
    /\ IF req[t].agent = "Codex"
          THEN /\ pc' = [pc EXCEPT ![t] = "sp_sleep"]
               /\ last' = Outcome("insert", req[t].id, "Pending")
               /\ lock' = t
               /\ UNCHANGED <<req, held>>
          ELSE /\ Return(t, Outcome("spawn", req[t].id, "Ok"))
               /\ UNCHANGED lock
    /\ UNCHANGED <<proc, batcher, tlog, nextChild, spawned>>
    /\ UNCHANGED <<readerVars, asideVars>>

\* Line 153: self.sessions.lock().await.insert(session_id, terminal_session); the
\* guard is dropped at the end of the statement.  Codex goes on to the workaround
\* (lines 157-161), every other agent type returns the pid.
SpawnInsert(t) ==
    /\ pc[t] = "sp_insert"
    /\ lock = NoLock
    /\ sessions' = Insert(sessions, req[t].id, TerminalSession(req[t].id, held[t]))
    /\ IF req[t].agent = "Codex"
          THEN /\ pc' = [pc EXCEPT ![t] = "sp_sleep"]
               /\ last' = Outcome("insert", req[t].id, "Pending")
               /\ UNCHANGED <<req, held>>
          ELSE Return(t, Outcome("spawn", req[t].id, "Ok"))
    /\ UNCHANGED <<lock, proc, batcher, tlog, nextChild, spawned>>
    /\ UNCHANGED <<readerVars, asideVars>>

\* write without the registry lookup's NotFound.
WriteResultNoLookup(map, id, ioOk) == IF ioOk THEN "Ok" ELSE "Io"

\* What write returns: NotFound for an id the registry does not hold, the IO error
\* of write_all / flush, or Ok.
WriteResult(map, id, ioOk) ==
    IF id \notin DOMAIN map THEN "NotFound" ELSE IF ioOk THEN "Ok" ELSE "Io"

\* The workaround with `?` on its write: the write's error becomes spawn's.
SpawnWorkaroundPropagates(t, ioOk) ==
    /\ pc[t] = "sp_sleep"
    /\ lock = NoLock
    /\ Return(t, [Outcome("spawn", req[t].id, WriteResult(sessions, req[t].id, ioOk))
                     EXCEPT !.wrote = WriteResult(sessions, req[t].id, ioOk),
                            !.on = Handle(sessions, req[t].id, "writer")])
    /\ UNCHANGED <<sessions, lock, proc, batcher, tlog, nextChild, spawned>>
    /\ UNCHANGED <<readerVars, asideVars>>

\* Lines 157-163: after the 100 ms sleep, self.write(session_id, ESC[1;1R) under
\* the registry lock, its result discarded by `let _ =`; spawn returns the pid.
SpawnWorkaround(t, ioOk) ==
    /\ pc[t] = "sp_sleep"
    /\ lock = NoLock
    /\ Return(t, [Outcome("spawn", req[t].id, "Ok")
                     EXCEPT !.wrote = WriteResult(sessions, req[t].id, ioOk),
                            !.on = Handle(sessions, req[t].id, "writer")])
    /\ UNCHANGED <<sessions, lock, proc, batcher, tlog, nextChild, spawned>>
    /\ UNCHANGED <<readerVars, asideVars>>

(***************************************************************************)
(* write, resize, is_running: the whole body runs under the guard          *)
(***************************************************************************)

\* write dropping the session whose write_all or flush failed.
WriteDropsOnError(id, ioOk) ==
    /\ lock = NoLock
    /\ sessions' = IF WriteResult(sessions, id, ioOk) = "Io"
                      THEN [k \in DOMAIN sessions \ {id} |-> sessions[k]]
                      ELSE sessions
    /\ Answer([Outcome("write", id, WriteResult(sessions, id, ioOk))
                  EXCEPT !.on = Handle(sessions, id, "writer")])
    /\ UNCHANGED <<lock, proc, batcher, tlog, nextChild, spawned>>
    /\ UNCHANGED <<readerVars, asideVars>>

\* Lines 166-175.
Write(id, ioOk) ==
    /\ lock = NoLock
    /\ Answer([Outcome("write", id, WriteResult(sessions, id, ioOk))
                  EXCEPT !.on = Handle(sessions, id, "writer")])
    /\ UNCHANGED <<sessions, lock, proc, batcher, tlog, nextChild, spawned>>
    /\ UNCHANGED <<readerVars, asideVars>>

\* What resize returns: NotFound, the Pty error of master_pty.resize, or Ok.
ResizeResult(map, id, ptyOk) ==
    IF id \notin DOMAIN map THEN "NotFound" ELSE IF ptyOk THEN "Ok" ELSE "Pty"

\* u16 values for rows and cols: the least and the greatest.
Dims == {0, 65535}

\* A PtySize with rows or cols of 0 raised to 1.
PtySizeAtLeastOne(rows, cols) ==
    [rows |-> IF rows = 0 THEN 1 ELSE rows, cols |-> IF cols = 0 THEN 1 ELSE cols,
     pixel_width |-> 0, pixel_height |-> 0]

\* Lines 184-189: PtySize { rows, cols, pixel_width: 0, pixel_height: 0 }.
PtySize(rows, cols) == [rows |-> rows, cols |-> cols, pixel_width |-> 0, pixel_height |-> 0]

\* Lines 177-193: for a registered id, PtySize {rows, cols} goes to the session's
\* master PTY as given; the call's error becomes Pty.
Resize(id, rows, cols, ptyOk) ==
    /\ lock = NoLock
    /\ Answer([Outcome("resize", id, ResizeResult(sessions, id, ptyOk))
                  EXCEPT !.sent = IF id \in Registered THEN {PtySize(rows, cols)} ELSE {},
                         !.on = Handle(sessions, id, "master_pty")])
    /\ UNCHANGED <<sessions, lock, proc, batcher, tlog, nextChild, spawned>>
    /\ UNCHANGED <<readerVars, asideVars>>

\* try_wait read as "still running" whenever it does not fail.
TryWaitNeverExited(c, waitOk) == IF ~waitOk THEN "err" ELSE "alive"

\* child.try_wait(): "err" when the wait fails, else whether the child has exited.
TryWait(c, waitOk) ==
    IF ~waitOk THEN "err" ELSE IF proc[c] = "exited" THEN "exited" ELSE "alive"

\* is_running taking a failed probe for a running child: unwrap_or(true).
IsRunningResultUnknownTrue(map, id, waitOk) ==
    IF id \in DOMAIN map /\ TryWait(map[id].child, waitOk) /= "exited" THEN "true" ELSE "false"

\* Lines 228-238: try_wait().map(|s| s.is_none()).unwrap_or(false), false when unknown.
IsRunningResult(map, id, waitOk) ==
    IF id \in DOMAIN map /\ TryWait(map[id].child, waitOk) = "alive" THEN "true" ELSE "false"

\* is_running dropping the entry whose child it finds exited.
IsRunningReaps(id, waitOk) ==
    /\ lock = NoLock
    /\ sessions' = IF id \in Registered /\ TryWait(sessions[id].child, waitOk) = "exited"
                      THEN [k \in DOMAIN sessions \ {id} |-> sessions[k]]
                      ELSE sessions
    /\ Answer([Outcome("is_running", id, IsRunningResult(sessions, id, waitOk))
                  EXCEPT !.on = Handle(sessions, id, "child")])
    /\ UNCHANGED <<lock, proc, batcher, tlog, nextChild, spawned>>
    /\ UNCHANGED <<readerVars, asideVars>>

IsRunning(id, waitOk) ==
    /\ lock = NoLock
    /\ Answer([Outcome("is_running", id, IsRunningResult(sessions, id, waitOk))
                  EXCEPT !.on = Handle(sessions, id, "child")])
    /\ UNCHANGED <<sessions, lock, proc, batcher, tlog, nextChild, spawned>>
    /\ UNCHANGED <<readerVars, asideVars>>

(***************************************************************************)
(* terminate: the guard taken at line 196 is held until the call returns   *)
(***************************************************************************)

\* remove() replaced by a lookup that leaves the entry in the map.
RemoveKeepsEntry(map, id) == map

\* HashMap::remove.
Remove(map, id) == [k \in DOMAIN map \ {id} |-> map[k]]

\* terminate answering NotFound for an unknown id, as write and resize do.
TerminateResultNotFound(found, probe) ==
    IF ~found THEN "NotFound" ELSE IF probe = "err" THEN "Pty" ELSE "Ok"

\* What terminate returns: Ok(()) when the id is unknown (line 225), the Pty error
\* of a failed try_wait (line 211), Ok(()) after the teardown.
TerminateResult(found, probe) == IF found /\ probe = "err" THEN "Pty" ELSE "Ok"

\* JoinHandle::abort on a reader task.
Abort(b) == "aborted"

\* Lines 196-208, up to the first await inside terminate: lock,
\* sessions.remove(&session_id); None: Ok(()) at once; Some: libc::kill(pid,
\* SIGTERM), then the 2 s sleep begins with the guard held.
TermBegin(t, id) ==
    /\ pc[t] = "idle"
    /\ lock = NoLock
    /\ IF id \in Registered
          THEN /\ sessions' = Remove(sessions, id)
               /\ lock' = t
               /\ held' = [held EXCEPT ![t] = sessions[id].child]
               /\ req' = [req EXCEPT ![t] = [NoReq EXCEPT !.id = id]]
               /\ pc' = [pc EXCEPT ![t] = "tm_sleep"]
               /\ tlog' = [tlog EXCEPT ![sessions[id].child] = <<"removed", "sigterm">>]
               /\ UNCHANGED last
          ELSE /\ Answer(Outcome("terminate", id, TerminateResult(FALSE, "none")))
               /\ UNCHANGED <<sessions, lock, tlog>>
    /\ UNCHANGED <<proc, batcher, nextChild, spawned>>
    /\ UNCHANGED <<readerVars, asideVars>>

\* terminate going from the re-check to the abort without the forceful kill.
AfterGraceNoKill(probe) ==
    CASE probe = "err" -> <<"grace", "err">>
      [] probe = "alive" -> <<"grace", "alive", "abort">>
      [] probe = "exited" -> <<"grace", "exited", "abort">>

\* Lines 208-225, what terminate does to the child once the sleep is over, by the
\* result of child.try_wait(): an Err leaves through `?` (line 211); Ok(None)
\* gets libc::kill(pid, SIGKILL) and child.kill() (212-218), neither of which
\* waits for the child; then reader_task.abort() (222).
AfterGrace(probe) ==
    CASE probe = "err" -> <<"grace", "err">>
      [] probe = "alive" -> <<"grace", "alive", "sigkill", "abort">>
      [] probe = "exited" -> <<"grace", "exited", "abort">>

\* Lines 208-225: the sleep ends and terminate runs to its return without
\* another await; the guard and the removed session are dropped on return.
TermFinish(t, waitOk) ==
    /\ pc[t] = "tm_sleep"
    /\ tlog' = [tlog EXCEPT ![held[t]] = @ \o AfterGrace(TryWait(held[t], waitOk))]
    /\ batcher' = IF TryWait(held[t], waitOk) = "err"
                     THEN batcher
                     ELSE [batcher EXCEPT ![held[t]] = Abort(@)]
    /\ lock' = NoLock
    /\ Return(t, [Outcome("terminate", req[t].id, TerminateResult(TRUE, TryWait(held[t], waitOk)))
                     EXCEPT !.ids = {req[t].id}, !.on = {held[t]}])
    /\ UNCHANGED <<sessions, proc, nextChild, spawned>>
    /\ UNCHANGED <<readerVars, asideVars>>

(***************************************************************************)
(* cleanup_finished                                                        *)
(***************************************************************************)

\* retain() keeping only the sessions whose child is seen running.
FinishedUnlessAlive(map, failing) ==
    {id \in DOMAIN map : TryWait(map[id].child, id \notin failing) /= "alive"}

\* Lines 244-253: the ids retain() drops: try_wait() is Ok(Some(_)).
Finished(map, failing) ==
    {id \in DOMAIN map : TryWait(map[id].child, id \notin failing) = "exited"}

\* Lines 240-256; failing: the sessions whose try_wait fails in this sweep.
CleanupFinished(failing) ==
    /\ lock = NoLock
    /\ sessions' = [k \in DOMAIN sessions \ Finished(sessions, failing) |-> sessions[k]]
    /\ batcher' = [c \in Children |->
                     IF \E id \in Finished(sessions, failing) : sessions[id].child = c
                        THEN Abort(batcher[c]) ELSE batcher[c]]
    /\ Answer([Outcome("cleanup_finished", "-", "Ok")
                    EXCEPT !.ids = Finished(sessions, failing)])
    /\ UNCHANGED <<lock, proc, tlog, nextChild, spawned>>
    /\ UNCHANGED <<readerVars, asideVars>>

(***************************************************************************)
(* the children                                                            *)
(***************************************************************************)

\* A child exits: on its own, on SIGTERM or on SIGKILL.  When is the child's and
\* the OS's choice: a child may ignore SIGTERM, and kill(2) returns before the
\* signalled process is gone.
ChildExits(c) ==
    /\ proc[c] = "running"
    /\ proc' = [proc EXCEPT ![c] = "exited"]
    /\ UNCHANGED <<sessions, lock, batcher, tlog, nextChild, pc, req, held, spawned, last>>
    /\ UNCHANGED <<readerVars, asideVars>>

\* The IO outcomes a call on id can meet: none when the id has no entry.
Fates(id) == IF id \in Registered THEN BOOLEAN ELSE {TRUE}

\* The <<rows, cols>> a resize of id is called with: one when the id has no entry.
Geometries(id) == IF id \in Registered THEN Dims \X Dims ELSE {<<0, 0>>}

Next ==
    \/ \E id \in Ids :
          \/ SpawnNoExecutable(id)
          \/ SpawnOpenPtyFails(id)
          \/ SpawnLaunchFails(id)
          \/ SpawnSplitFails(id)
    \/ \E t \in Callers, id \in Ids, agent \in AgentTypes : SpawnLaunched(t, id, agent)
    \/ \E t \in Callers : SpawnInsert(t)
    \/ \E t \in Callers : \E ok \in Fates(req[t].id) : SpawnWorkaround(t, ok)
    \/ \E id \in Ids : \E ok \in Fates(id) :
          \/ Write(id, ok)
          \/ \E size \in Geometries(id) : Resize(id, size[1], size[2], ok)
          \/ IsRunning(id, ok)
    \/ \E t \in Callers, id \in Ids : TermBegin(t, id)
    \/ \E t \in Callers, ok \in BOOLEAN : TermFinish(t, ok)
    \/ \E failing \in SUBSET Registered : CleanupFinished(failing)
    \/ \E c \in Children : ChildExits(c)

Spec == Init /\ [][Next]_vars

\* The manager under the runtime's scheduling: a sleep ends and its task goes on
\* (terminate's 2 s, spawn's 100 ms), and a task waiting in lock().await gets the
\* Mutex once it stays free (the Mutex hands itself to its waiters in the order
\* they came, which promises more than is asked for here).
Scheduling ==
    \A t \in Callers :
        /\ WF_vars(\E ok \in BOOLEAN : TermFinish(t, ok))
        /\ WF_vars(SpawnInsert(t))
        /\ WF_vars(\E ok \in BOOLEAN : SpawnWorkaround(t, ok))

SpecLive == Spec /\ Scheduling

(***************************************************************************)
(* The reader task (lines 108-142), one of them, followed from its start   *)
(* to its end: a step per return of the blocking reader.read               *)
(***************************************************************************)

BATCH_SIZE == 4096

BATCH_INTERVAL_MS == 16

\* The output events a reader task is followed for.
MaxOutputs == 2

\* The byte counts a read may return: at most buffer.len() = BATCH_SIZE.
ReadSizes == {1000, BATCH_SIZE - 1, BATCH_SIZE}

\* app.emit("terminal_output_{session_id}", data)
Output(id, len) == [event |-> "terminal_output", id |-> id, len |-> len]

\* app.emit("terminal_ended_{session_id}", ())
Ended(id) == [event |-> "terminal_ended", id |-> id, len |-> 0]

\* Lines 109-113: spawn_blocking starts the closure, which owns the reader and
\* session_id; batch is empty, last_emit = Instant::now().
ReaderStart(id, c) ==
    /\ rtask = "none"
    /\ rtask' = "reading"
    /\ rid' = id
    /\ rchild' = c
    /\ batch' = 0
    /\ elapsed' = 0
    /\ emitted' = << >>
    /\ reads' = << >>
    /\ content' = << >>
    /\ payloads' = << >>
    /\ UNCHANGED <<managerVars, asideVars>>

\* A millisecond passes while the task is blocked in reader.read.
Tick ==
    /\ rtask = "reading"
    /\ elapsed <= BATCH_INTERVAL_MS
    /\ elapsed' = elapsed + 1
    /\ UNCHANGED <<rtask, rid, rchild, batch, emitted, reads, content, payloads>>
    /\ UNCHANGED <<managerVars, asideVars>>

\* The flush condition with a batch of exactly BATCH_SIZE bytes not yet due.
FlushDueAboveSize(len, ms) == len > BATCH_SIZE \/ ms >= BATCH_INTERVAL_MS

\* The flush condition without its size half.
FlushDueByTimeOnly(len, ms) == ms >= BATCH_INTERVAL_MS

\* Line 122: batch.len() >= BATCH_SIZE || elapsed >= BATCH_INTERVAL_MS.
FlushDue(len, ms) == len >= BATCH_SIZE \/ ms >= BATCH_INTERVAL_MS

\* The bytes of the k-th read, n of them.
Chunk(k, n) == [k |-> k, n |-> n]

\* The new bytes put in front of the batch.
ExtendInFront(data, chunk) == <<chunk>> \o data

\* Line 119: batch.extend_from_slice(&buffer[..n]).
Extend(data, chunk) == Append(data, chunk)

\* The read taken only while the registry lock is free.
ReaderReadUnderLock(n) ==
    /\ lock = NoLock
    /\ rtask = "reading"
    /\ Len(emitted) < MaxOutputs
    /\ reads' = Append(reads, n)
    /\ IF FlushDue(batch + n, elapsed)
          THEN /\ emitted' = Append(emitted, Output(rid, batch + n))
               /\ payloads' = Append(payloads, Extend(content, Chunk(Len(reads) + 1, n)))
               /\ batch' = 0
               /\ content' = << >>
               /\ elapsed' = 0
          ELSE /\ batch' = batch + n
               /\ content' = Extend(content, Chunk(Len(reads) + 1, n))
               /\ UNCHANGED <<emitted, payloads, elapsed>>
    /\ UNCHANGED <<rtask, rid, rchild>>
    /\ UNCHANGED <<managerVars, asideVars>>

\* Lines 116-127: reader.read returns Ok(n), n > 0; the bytes join the batch and,
\* if the flush is due, the whole batch is emitted and last_emit is reset.  The
\* next thing the task does is the next reader.read.
ReaderRead(n) ==
    /\ rtask = "reading"
    /\ Len(emitted) < MaxOutputs
    /\ reads' = Append(reads, n)
    /\ IF FlushDue(batch + n, elapsed)
          THEN /\ emitted' = Append(emitted, Output(rid, batch + n))
               /\ payloads' = Append(payloads, Extend(content, Chunk(Len(reads) + 1, n)))
               /\ batch' = 0
               /\ content' = << >>
               /\ elapsed' = 0
          ELSE /\ batch' = batch + n
               /\ content' = Extend(content, Chunk(Len(reads) + 1, n))
               /\ UNCHANGED <<emitted, payloads, elapsed>>
    /\ UNCHANGED <<rtask, rid, rchild>>
    /\ UNCHANGED <<managerVars, asideVars>>

\* The end of the task without the flush of the remainder.
AfterLoopEndedOnly(id, len) == <<Ended(id)>>

\* Lines 135-141, what the task emits once the loop is left: the remaining batch
\* if it is not empty, then the ended event.
AfterLoop(id, len) ==
    (IF len > 0 THEN <<Output(id, len)>> ELSE << >>) \o <<Ended(id)>>

\* A read error ending the task at once: no flush, no ended event.
ReaderStopsSilentOnError(how) ==
    /\ rtask = "reading"
    /\ rtask' = how
    /\ emitted' = IF how = "error" THEN emitted ELSE emitted \o AfterLoop(rid, batch)
    /\ payloads' = IF how = "error" \/ batch = 0 THEN payloads ELSE Append(payloads, content)
    /\ batch' = IF how = "error" THEN batch ELSE 0
    /\ content' = IF how = "error" THEN content ELSE << >>
    /\ UNCHANGED <<rid, rchild, elapsed, reads>>
    /\ UNCHANGED <<managerVars, asideVars>>

\* Lines 117 and 128-131: reader.read returns Ok(0) ("eof") or Err(e) ("error");
\* both break out of the loop, Err after an eprintln; the task then runs lines
\* 135-141 and ends.
ReaderStops(how) ==
    /\ rtask = "reading"
    /\ rtask' = how
    /\ emitted' = emitted \o AfterLoop(rid, batch)
    /\ payloads' = IF batch > 0 THEN Append(payloads, content) ELSE payloads
    /\ batch' = 0
    /\ content' = << >>
    /\ UNCHANGED <<rid, rchild, elapsed, reads>>
    /\ UNCHANGED <<managerVars, asideVars>>

NextReader ==
    \/ \E id \in Ids : ReaderStart(id, 0)
    \/ Tick
    \/ \E n \in ReadSizes : ReaderRead(n)
    \/ \E how \in {"eof", "error"} : ReaderStops(how)

SpecReader == Init /\ [][NextReader]_vars

(***************************************************************************)
(* The manager and one of its reader tasks together: spawn hands the       *)
(* closure to the blocking pool (line 110), where it starts at some later  *)
(* time and then runs beside the manager's calls                           *)
(***************************************************************************)

\* The session_id the closure of child c's reader task captured, read off the
\* session while a call or the registry holds it.
SessionIdOf(c) ==
    {req[t].id : t \in {u \in Callers : held[u] = c}}
       \cup {id \in Registered : sessions[id].child = c}

\* The pool starts the closure of child c's reader task.  A task aborted before
\* it started never runs; abort() on a blocking task that runs does not stop it.
TaskStart(c) ==
    /\ batcher[c] = "running"
    /\ \E id \in SessionIdOf(c) : ReaderStart(id, c)

\* The byte counts of the reads the task is followed through beside the manager.
StreamSizes == {BATCH_SIZE}

NextStreaming ==
    \/ \E t \in Callers, id \in Ids : SpawnLaunched(t, id, "Custom")
    \/ \E t \in Callers : SpawnInsert(t)
    \/ \E id \in Ids : \E ok \in Fates(id) :
          \/ Write(id, ok)
          \/ Resize(id, 0, 0, ok)
          \/ IsRunning(id, ok)
    \/ \E t \in Callers, id \in Ids : TermBegin(t, id)
    \/ \E t \in Callers, ok \in BOOLEAN : TermFinish(t, ok)
    \/ \E c \in Children : ChildExits(c)
    \/ \E c \in Children : TaskStart(c)
    \/ \E n \in StreamSizes : ReaderRead(n)
    \/ \E how \in {"eof", "error"} : ReaderStops(how)

SpecStreaming == Init /\ [][NextStreaming]_vars

(***************************************************************************)
(* AgentResolver::resolve (services/agent_resolver.rs), a function of its  *)
(* arguments and of the file system, and what spawn makes of its result    *)
(***************************************************************************)

\* AgentType::executable_names.
executable_names(agent_type) ==
    CASE agent_type = "ClaudeCode" -> <<"claude", "claude-code", "claude_code">>
      [] agent_type = "Codex" -> <<"codex", "openai-codex">>
      [] agent_type = "Custom" -> <<"agent">>

\* The installation directories of candidate_paths, in its order.
InstallDirs ==
    <<"~/.local/bin", "~/bin", "~/.npm-global/bin", "~/.npm/bin", "~/.volta/bin",
      "/opt/homebrew/bin", "/usr/local/bin", "/usr/bin", "/bin", "/opt/local/bin">>

\* How many of them the file system is looked at for.
MaxDirs == 2

\* candidate_paths: for dir in dirs { for name in names { push(dir.join(name)) } }.
candidate_paths(agent_type) ==
    LET names == executable_names(agent_type)
        k == Len(names)
    IN  [i \in 1..(MaxDirs * k) |->
            <<InstallDirs[((i - 1) \div k) + 1], names[((i - 1) % k) + 1]>>]

\* A path outside the candidate directories, for the override.
Elsewhere == <<"/opt/tools", "my-agent">>

\* What a path is on the file system: nothing, an entry without an execute bit,
\* or an entry with one (mode & 0o111 != 0; is_executable does not ask what kind
\* of entry it is).
Kinds == {"absent", "plain", "exec"}

\* is_executable: path.exists() and an execute bit in the mode.
is_executable(path, files) == files[path] = "exec"

\* What /usr/bin/which answers for a name: "fail" (no success), "stale" (a path
\* that does not exist), "found".  which(name) is Some(path) only for "found".
which(name, lookup) == IF lookup[name] = "found" THEN {<<"$PATH", name>>} ELSE {}

\* Lines 22-26: the first candidate that is executable, as an Option.
RECURSIVE FirstExecutable(_, _, _)
FirstExecutable(paths, i, files) ==
    IF i > Len(paths) THEN {}
    ELSE IF is_executable(paths[i], files) THEN {paths[i]}
    ELSE FirstExecutable(paths, i + 1, files)

\* Lines 29-33: the answer of which for the first name it finds, as an Option.
RECURSIVE FirstFound(_, _, _)
FirstFound(names, i, lookup) ==
    IF i > Len(names) THEN {}
    ELSE IF which(names[i], lookup) /= {} THEN which(names[i], lookup)
    ELSE FirstFound(names, i + 1, lookup)

\* resolve asking which before it looks at the candidate paths.
resolveLookupFirst(agent_type, override_path, files, lookup) ==
    IF \E path \in override_path : is_executable(path, files)
       THEN override_path
    ELSE IF FirstFound(executable_names(agent_type), 1, lookup) /= {}
       THEN FirstFound(executable_names(agent_type), 1, lookup)
    ELSE FirstExecutable(candidate_paths(agent_type), 1, files)

\* Lines 12-36.  An Option is the empty set (None) or a set of one (Some).
resolve(agent_type, override_path, files, lookup) ==
    IF \E path \in override_path : is_executable(path, files)
       THEN override_path
    ELSE IF FirstExecutable(candidate_paths(agent_type), 1, files) /= {}
       THEN FirstExecutable(candidate_paths(agent_type), 1, files)
    ELSE FirstFound(executable_names(agent_type), 1, lookup)

Range(f) == {f[x] : x \in DOMAIN f}

\* The calls resolve is followed for: an agent type, no override or one (outside
\* the candidate directories, or the last candidate), every file system over the
\* paths the call can look at, every answer of which.
Calls ==
    UNION {
       [agent : {a},
        override : {{}, {Elsewhere},
                    {candidate_paths(a)[Len(candidate_paths(a))]}},
        files : [Range(candidate_paths(a)) \cup {Elsewhere} -> Kinds],
        which : [Range(executable_names(a)) -> {"fail", "stale", "found"}]]
       : a \in AgentTypes }

InitResolve ==
    /\ Fresh
    /\ rin \in Calls
    /\ rout = [done |-> FALSE, path |-> {}]

\* manager.rs line 60: AgentResolver::resolve(agent_type, override_executable).
Resolved ==
    /\ ~rout.done
    /\ rout' = [done |-> TRUE,
                path |-> resolve(rin.agent, rin.override, rin.files, rin.which)]
    /\ UNCHANGED rin
    /\ UNCHANGED <<managerVars, readerVars, writerVars>>

\* Lines 60-72: .ok_or(PtyError::ExecutableNotFound)? ends spawn on None; with a
\* path spawn goes on to openpty, which may fail.
NextResolve ==
    \/ Resolved
    \/ \E id \in Ids : rout.done /\ rout.path = {} /\ SpawnNoExecutable(id)
    \/ \E id \in Ids : rout.done /\ rout.path /= {} /\ SpawnOpenPtyFails(id)

SpecResolve == InitResolve /\ [][NextResolve]_vars

(***************************************************************************)
(* write (lines 166-175) followed inside: write_all hands the data to the  *)
(* PTY in one or more write(2) calls, here two parts, then flush; the      *)
(* guard taken at line 167 lives until the function returns                *)
(***************************************************************************)

\* The write calls a session's input stream is followed for.
MaxWrites == 2

\* write releasing the guard after the lookup, before the IO.
WriteBeginLookupOnly(t, id) ==
    /\ pc[t] = "idle"
    /\ lock = NoLock
    /\ IF id \in Registered
          THEN /\ Len(wire[sessions[id].writer]) < 2 * MaxWrites
               /\ pc' = [pc EXCEPT ![t] = "wr_all"]
               /\ req' = [req EXCEPT ![t] = [NoReq EXCEPT !.id = id]]
               /\ held' = [held EXCEPT ![t] = sessions[id].writer]
               /\ UNCHANGED <<lock, last>>
          ELSE /\ Return(t, Outcome("write", id, WriteResult(sessions, id, TRUE)))
               /\ UNCHANGED lock
    /\ UNCHANGED <<sessions, proc, batcher, tlog, nextChild, spawned, wire>>
    /\ UNCHANGED <<readerVars, resolverVars>>

\* Lines 167-170: the guard is taken and the session looked up; NotFound returns
\* at once, dropping the guard.
WriteBegin(t, id) ==
    /\ pc[t] = "idle"
    /\ lock = NoLock
    /\ IF id \in Registered
          THEN /\ Len(wire[sessions[id].writer]) < 2 * MaxWrites
               /\ lock' = t
               /\ pc' = [pc EXCEPT ![t] = "wr_all"]
               /\ req' = [req EXCEPT ![t] = [NoReq EXCEPT !.id = id]]
               /\ held' = [held EXCEPT ![t] = sessions[id].writer]
               /\ UNCHANGED last
          ELSE /\ Return(t, Outcome("write", id, WriteResult(sessions, id, TRUE)))
               /\ UNCHANGED lock
    /\ UNCHANGED <<sessions, proc, batcher, tlog, nextChild, spawned, wire>>
    /\ UNCHANGED <<readerVars, resolverVars>>

\* Lines 172-174: one write(2) of write_all.  A failed one returns Io through `?`;
\* after the last one flush, Ok(()), and the guard is dropped.
WritePart(t, ioOk) ==
    /\ pc[t] \in {"wr_all", "wr_rest"}
    /\ IF ~ioOk
          THEN /\ Return(t, [Outcome("write", req[t].id, "Io") EXCEPT !.on = {held[t]}])
               /\ lock' = NoLock
               /\ UNCHANGED wire
          ELSE /\ wire' = [wire EXCEPT ![held[t]] =
                              Append(@, <<t, IF pc[t] = "wr_all" THEN 1 ELSE 2>>)]
               /\ IF pc[t] = "wr_all"
                     THEN /\ pc' = [pc EXCEPT ![t] = "wr_rest"]
                          /\ UNCHANGED <<lock, req, held, last>>
                     ELSE /\ Return(t, [Outcome("write", req[t].id, "Ok")
                                           EXCEPT !.on = {held[t]}])
                          /\ lock' = NoLock
    /\ UNCHANGED <<sessions, proc, batcher, tlog, nextChild, spawned>>
    /\ UNCHANGED <<readerVars, resolverVars>>

NextWrite ==
    \/ \E t \in Callers, id \in Ids : SpawnLaunched(t, id, "Custom")
    \/ \E t \in Callers : SpawnInsert(t)
    \/ \E t \in Callers, id \in Ids : WriteBegin(t, id)
    \/ \E t \in Callers, ok \in BOOLEAN : WritePart(t, ok)

SpecWrite == Init /\ [][NextWrite]_vars

(***************************************************************************)
(* Vocabulary of the properties                                            *)
(***************************************************************************)

\* This step is the return of a call of `op` (for spawn: of a finished spawn).
Did(op) == last' /= last /\ last'.op = op

\* The ids whose session is built on child c.
IdsOf(c) == {id \in Registered : sessions[id].child = c}

\* A terminate call that found child c's session has returned.
Returned(c) == tlog[c] /= << >> /\ \A t \in Callers : held[t] /= c

\* A terminate call is past its removal, on id.
Terminating(id) == \E t \in Callers : pc[t] = "tm_sleep" /\ req[t].id = id

IsPrefix(s, f) == Len(s) <= Len(f) /\ \A i \in 1..Len(s) : s[i] = f[i]

\* This step is terminate's removal of id's entry.
RemovedByTerminate(id) ==
    \E t \in Callers : pc[t] = "idle" /\ pc'[t] = "tm_sleep" /\ req'[t].id = id

\* This step is a cleanup_finished that reaps id, whose child has exited.
ReapedByCleanup(id) ==
    Did("cleanup_finished") /\ id \in last'.ids /\ proc[sessions[id].child] = "exited"

\* This step is spawn's insert under id.
InsertedBySpawn(id) ==
    \E t \in Callers : pc[t] = "sp_insert" /\ pc'[t] /= "sp_insert" /\ req[t].id = id

\* This step belongs to a write, resize, is_running or terminate called with id:
\* the call's return, or terminate's removal.
CalledOn(id) ==
    \/ /\ last' /= last
       /\ last'.op \in {"write", "resize", "is_running", "terminate"}
       /\ last'.id = id
    \/ RemovedByTerminate(id)

\* What terminate may do to a child, in order, on its three paths.
Escalations ==
    { <<"removed", "sigterm", "grace", "alive", "sigkill", "abort">>,
      <<"removed", "sigterm", "grace", "exited", "abort">>,
      <<"removed", "sigterm", "grace", "err">> }

\* The re-check after the grace period found child c alive.
IgnoredSigterm(c) == Len(tlog[c]) >= 4 /\ tlog[c][4] = "alive"

\* This step is a spawn returning an error.
SpawnErrorStep ==
    /\ last'.op = "spawn" /\ last'.res /= "Ok"
    /\ pc' = pc
    /\ last' /= last \/ nextChild' /= nextChild

\* The reader task has left its loop and ended.
Stopped == rtask \in {"eof", "error"}

\* What a reader task that leaves its loop has to emit on the way out.
Farewell == (IF batch > 0 THEN <<Output(rid, batch)>> ELSE << >>) \o <<Ended(rid)>>

\* The positions of the ended events among the emitted ones.
EndedAt == {i \in 1..Len(emitted) : emitted[i].event = "terminal_ended"}

\* The concatenation of a sequence of byte sequences.
RECURSIVE Flat(_)
Flat(datas) == IF datas = << >> THEN << >> ELSE Head(datas) \o Flat(Tail(datas))

\* The length in bytes of a byte sequence given in chunks.
RECURSIVE Size(_)
Size(data) == IF data = << >> THEN 0 ELSE Head(data).n + Size(Tail(data))

\* The output events among the emitted ones, in order.
Outputs == SelectSeq(emitted, LAMBDA e : e.event = "terminal_output")

\* Among ids, those whose child has exited.
Exited(ids) == {id \in ids : proc[sessions[id].child] = "exited"}

(***************************************************************************)
(* C1: for an id never passed to spawn, write and resize return NotFound,  *)
(* is_running returns false, and none of the three changes the registry.   *)
(***************************************************************************)
C1_UnknownId ==
    /\ [](Registered \subseteq spawned)
    /\ [][(last'.id \in Ids \ spawned /\ (Did("write") \/ Did("resize") \/ Did("is_running")))
            => /\ last'.res = (IF last'.op = "is_running" THEN "false" ELSE "NotFound")
               /\ sessions' = sessions]_vars

\* A write to an id never spawned answered NotFound while another session is registered.
C1_Witness ==
    /\ last.op = "write" /\ last.res = "NotFound"
    /\ last.id \notin spawned
    /\ Registered /= {}

(***************************************************************************)
(* C2: the registry holds at most one session per id, and a registered     *)
(* session stays registered, unreplaced, until terminate(id) removes it or *)
(* a cleanup_finished that sees its child exited reaps it.                 *)
(***************************************************************************)
C2_StaysRegistered ==
    [][\A id \in Registered :
          (id \notin DOMAIN sessions' \/ sessions'[id] /= sessions[id])
             => (RemovedByTerminate(id) \/ ReapedByCleanup(id))]_vars

(***************************************************************************)
(* C3: a spawn whose id is already registered is rejected with an error    *)
(* and leaves the registered session as it is.                             *)
(***************************************************************************)
C3_DuplicateSpawnRejected ==
    [][\A t \in Callers :
          (pc[t] = "sp_insert" /\ pc'[t] /= "sp_insert" /\ req[t].dup /\ req[t].id \in Registered)
             => /\ sessions' = sessions
                /\ Did("spawn") /\ last'.res /= "Ok"]_vars

(***************************************************************************)
(* C4: terminate on an id without a registry entry returns Ok, sends no    *)
(* signal, aborts no reader task and leaves the registry as it is; a       *)
(* terminate(id) that directly follows a terminate(id) finds no entry, so  *)
(* it returns Ok whatever the first one returned.                          *)
(***************************************************************************)
C4_TerminateIdempotent ==
    /\ [](last.op = "terminate" => last.id \notin Registered)
    /\ [][(Did("terminate") /\ last'.id \notin Registered /\ ~Terminating(last'.id))
            => /\ last'.res = "Ok"
               /\ UNCHANGED <<sessions, proc, batcher, tlog, lock>>]_vars
    /\ [][\A t \in Callers :
            (last.op = "terminate" /\ pc[t] = "idle" /\ pc'[t] = "tm_sleep")
               => req'[t].id /= last.id]_vars

\* A terminate of an id nobody spawned returned Ok beside a registered session.
C4_Witness ==
    /\ last.op = "terminate" /\ last.res = "Ok"
    /\ last.id \notin spawned
    /\ Registered /= {}

C6_EscalationOrder ==
    /\ [](\A c \in Children : \E f \in Escalations : IsPrefix(tlog[c], f))
    /\ [][\A c \in Children :
            (Len(tlog[c]) = 2 /\ Len(tlog'[c]) > 2)
               => /\ tlog'[c][4] = "alive" => proc[c] = "running"
                  /\ tlog'[c][4] = "exited" => proc[c] = "exited"]_vars

\* One child was killed after the grace period, another was found exited and not killed.
C6_Witness ==
    \E c, d \in Children :
        /\ tlog[c] = <<"removed", "sigterm", "grace", "alive", "sigkill", "abort">>
        /\ tlog[d] = <<"removed", "sigterm", "grace", "exited", "abort">>

(***************************************************************************)
(* C7: for a child still alive after the grace period, terminate has, by   *)
(* the time it returns, confirmed the child dead and left no entry.        *)
(***************************************************************************)
C7_ConfirmedDead ==
    \A c \in Children :
        (Returned(c) /\ IgnoredSigterm(c)) => (proc[c] = "exited" /\ IdsOf(c) = {})

\* C7, amended: when terminate returns, the session has no entry; if the re-check
\* found the child alive, SIGKILL has been sent to it, and terminate returns without
\* waiting for the child to die; if the re-check failed, no SIGKILL was sent.
C7_KillSent ==
    \A c \in Children :
        Returned(c)
           => /\ IdsOf(c) = {}
              /\ IgnoredSigterm(c)
                    => tlog[c] = <<"removed", "sigterm", "grace", "alive", "sigkill", "abort">>
              /\ tlog[c][4] = "err" => Len(tlog[c]) = 4

\* terminate has returned Ok after the kill and the child has not exited yet.
C7_Witness ==
    \E c \in Children :
        /\ Returned(c) /\ IgnoredSigterm(c)
        /\ last.op = "terminate" /\ last.res = "Ok"
        /\ proc[c] = "running"

(***************************************************************************)
(* C8: every terminate that found an entry has aborted that session's      *)
(* reader task by the time it returns, on every path.                      *)
(***************************************************************************)
C8_BatcherCancelled ==
    \A c \in Children : Returned(c) => batcher[c] = "aborted"

(***************************************************************************)
(* C9: a failing write or resize returns its error and the session stays   *)
(* registered; write, resize and is_running never change the registry, and *)
(* an id leaves it only through terminate or cleanup_finished.             *)
(***************************************************************************)
C9_FailureKeepsSession ==
    /\ [][(Did("write") \/ Did("resize") \/ Did("is_running")) => sessions' = sessions]_vars
    /\ [][(Did("write") /\ last'.res = "Io") => last'.id \in DOMAIN sessions']_vars
    /\ [][(Did("resize") /\ last'.res = "Pty") => last'.id \in DOMAIN sessions']_vars
    /\ [][\A id \in Registered :
            id \notin DOMAIN sessions' => (RemovedByTerminate(id) \/ Did("cleanup_finished"))]_vars

\* A write failed with an IO error and its session is still registered.
C9_Witness ==
    /\ last.op = "write" /\ last.res = "Io"
    /\ last.id \in Registered

(***************************************************************************)
(* C10: cleanup_finished removes exactly the sessions whose try_wait shows *)
(* the child exited, aborts their reader tasks, returns exactly their ids, *)
(* and leaves the sessions with a running child or a failed probe as they  *)
(* are.                                                                    *)
(***************************************************************************)
C10_CleanupExact ==
    /\ [][Did("cleanup_finished")
            => /\ DOMAIN sessions' = Registered \ last'.ids
               /\ last'.ids \subseteq Exited(Registered)
               /\ \A id \in Registered \ last'.ids :
                     /\ sessions'[id] = sessions[id]
                     /\ batcher'[sessions[id].child] = batcher[sessions[id].child]
               /\ \A id \in last'.ids : batcher'[sessions[id].child] = "aborted"
               /\ UNCHANGED <<proc, tlog, lock>>]_vars
    /\ [][\A failing \in SUBSET Registered :
            CleanupFinished(failing) => last'.ids = Exited(Registered \ failing)]_vars

\* A sweep reaped one session and left another, whose child runs, registered.
C10_Witness ==
    /\ last.op = "cleanup_finished" /\ last.ids /= {}
    /\ \E id \in Registered : proc[sessions[id].child] = "running" /\ batcher[sessions[id].child] = "running"
    /\ \E c \in Children : proc[c] = "exited" /\ batcher[c] = "aborted" /\ tlog[c] = << >>

(***************************************************************************)
(* C11: is_running(id) returns true exactly when the registry holds an     *)
(* entry for id and the non-blocking probe succeeds and reports the child  *)
(* not exited; it returns false for an unknown id, an exited child and a   *)
(* failed probe; it changes neither registry nor child, and a running      *)
(* child never keeps it from returning.                                    *)
(***************************************************************************)
C11_IsRunningExact ==
    /\ [][\A id \in Ids, ok \in BOOLEAN :
            IsRunning(id, ok)
               => /\ last'.op = "is_running" /\ last'.id = id
                  /\ last'.res \in {"true", "false"}
                  /\ last'.res = "true"
                        <=> (id \in Registered /\ ok /\ proc[sessions[id].child] = "running")
                  /\ UNCHANGED <<sessions, proc, batcher, tlog, lock>>]_vars
    /\ [](\A id \in Registered :
            (lock = NoLock /\ \E t \in Callers : pc[t] = "idle") => ENABLED IsRunning(id, TRUE))

\* is_running answered false for a registered session whose child runs: the probe failed.
C11_Witness ==
    /\ last.op = "is_running" /\ last.res = "false"
    /\ last.id \in Registered
    /\ proc[sessions[last.id].child] = "running"

(***************************************************************************)
(* C12: once the child of a registered session has exited on its own and   *)
(* a cleanup_finished or an is_running probe has seen the exit, the        *)
(* session is no longer in the registry.                                   *)
(***************************************************************************)
C12_ObservedExitRemoves ==
    [][\A id \in Exited(Registered) :
          (IsRunning(id, TRUE)
             \/ \E failing \in SUBSET (Registered \ {id}) : CleanupFinished(failing))
            => id \notin DOMAIN sessions']_vars

\* C12, amended: a cleanup_finished whose probe sees the exit removes the session;
\* an is_running probe that sees the exit returns false and leaves the registry as
\* it is, so the id stays registered until terminate or cleanup_finished removes it.
C12_ExitReapedByCleanupOnly ==
    /\ [][\A id \in Exited(Registered) :
            (\E failing \in SUBSET (Registered \ {id}) : CleanupFinished(failing))
               => (id \notin DOMAIN sessions' /\ id \in last'.ids)]_vars
    /\ [][\A id \in Exited(Registered) :
            IsRunning(id, TRUE)
               => (last'.res = "false" /\ sessions' = sessions)]_vars
    /\ [][\A id \in Exited(Registered) :
            id \notin DOMAIN sessions'
               => (RemovedByTerminate(id) \/ ReapedByCleanup(id))]_vars

\* is_running has answered false for a session whose child has exited, and the
\* session is still registered.
C12_Witness ==
    /\ last.op = "is_running" /\ last.res = "false"
    /\ last.id \in Exited(Registered)
    /\ tlog[sessions[last.id].child] = << >>

(***************************************************************************)
(* C13: an id whose entry terminate or cleanup_finished has removed is     *)
(* never registered again, whatever is called later, a spawn with the same *)
(* id included.                                                            *)
(***************************************************************************)
C13_NoResurrection ==
    [][\A t \in Callers :
          (pc[t] = "sp_insert" /\ pc'[t] /= "sp_insert" /\ req[t].gone)
             => req[t].id \notin DOMAIN sessions']_vars

(***************************************************************************)
(* C14: pending bytes are emitted no later than one batch interval (16 ms) *)
(* after the last flush, also when the PTY delivers nothing more: a reader *)
(* task waiting for data never holds bytes older than the interval.        *)
(***************************************************************************)
C14_BoundedLatency ==
    (rtask = "reading" /\ batch > 0) => elapsed <= BATCH_INTERVAL_MS

(***************************************************************************)
(* C15: a read that brings the batch to BATCH_SIZE bytes or more emits the *)
(* whole batch as one output event before the next read, however little    *)
(* time has passed since the last flush, and leaves the batch empty.       *)
(***************************************************************************)
C15_ThresholdFlush ==
    /\ [][\A n \in ReadSizes :
            (ReaderRead(n) /\ batch + n >= BATCH_SIZE)
               => /\ emitted' = Append(emitted, Output(rid, batch + n))
                  /\ batch' = 0
                  /\ rtask' = "reading"]_vars
    /\ [](rtask = "reading" => batch < BATCH_SIZE)

\* Two threshold flushes in a row, the second of a batch that a read pushed over
\* BATCH_SIZE, and the task is back in its read with nothing pending.
C15_Witness ==
    /\ rtask = "reading" /\ batch = 0
    /\ Len(emitted) = 2
    /\ emitted[1].len = BATCH_SIZE
    /\ emitted[2].len > BATCH_SIZE

(***************************************************************************)
(* C16: on end-of-stream the reader task emits the remaining batch if      *)
(* there is one, then one ended event tagged with its session id, and      *)
(* ends: at most one ended event per reader task, nothing emitted after.   *)
(***************************************************************************)
C16_EndOfStream ==
    /\ [][(rtask = "reading" /\ rtask' = "eof")
            => (emitted' = emitted \o Farewell /\ batch' = 0)]_vars
    /\ [][Stopped => UNCHANGED <<rtask, emitted>>]_vars
    /\ [](/\ Cardinality(EndedAt) <= 1
          /\ Stopped <=> EndedAt /= {}
          /\ Stopped => (EndedAt = {Len(emitted)} /\ emitted[Len(emitted)] = Ended(rid)))

\* End of stream with a partial batch pending: one output event below the
\* threshold, then the ended event.
C16_Witness ==
    /\ rtask = "eof"
    /\ Len(emitted) = 2
    /\ emitted[1] = Output(rid, 1000)
    /\ emitted[2] = Ended(rid)

(***************************************************************************)
(* C17: a read error ends the reader task the way end-of-stream does: the  *)
(* loop stops, the remaining batch is emitted, then one ended event; the   *)
(* error reaches no caller: no call outcome and no manager state changes.  *)
(***************************************************************************)
C17_ReadErrorLikeEof ==
    /\ [][(rtask = "reading" /\ rtask' = "error")
            => /\ emitted' = emitted \o Farewell
               /\ batch' = 0
               /\ UNCHANGED managerVars]_vars
    /\ [](rtask = "error"
            => /\ emitted /= << >> /\ emitted[Len(emitted)] = Ended(rid)
               /\ last = Outcome("none", "-", "-"))

\* A read error after a flush, with a partial batch pending: remainder, then ended.
C17_Witness ==
    /\ rtask = "error"
    /\ Len(emitted) = 3
    /\ emitted[1].len >= BATCH_SIZE
    /\ emitted[2] = Output(rid, BATCH_SIZE - 1)
    /\ emitted[3] = Ended(rid)

(***************************************************************************)
(* C18: a spawn that returns an error (ExecutableNotFound, Pty,            *)
(* SpawnFailed) leaves the registry as it is and starts no reader task; it *)
(* returns at the failing step, nothing being tried again, and with        *)
(* ExecutableNotFound or SpawnFailed no child has been launched.           *)
(***************************************************************************)
C18_SpawnErrorsLeaveNoTrace ==
    [][SpawnErrorStep
         => /\ last'.res \in {"ExecutableNotFound", "Pty", "SpawnFailed"}
            /\ last'.id \in spawned'
            /\ UNCHANGED <<sessions, batcher, lock, tlog, req, held>>
            /\ nextChild' \in {nextChild, nextChild + 1}
            /\ \A c \in Children : proc'[c] /= proc[c] => (c = nextChild' /\ last'.res = "Pty")
            /\ last'.res \in {"ExecutableNotFound", "SpawnFailed"}
                  => UNCHANGED <<proc, nextChild>>]_vars

\* A spawn failed at the reader/writer split: its child runs, without reader task
\* and without entry, beside a session that is registered.
C18_Witness ==
    /\ last.op = "spawn" /\ last.res = "Pty"
    /\ Registered /= {}
    /\ \E c \in Children : proc[c] = "running" /\ batcher[c] = "none" /\ IdsOf(c) = {}

(***************************************************************************)
(* C19: for Codex, spawn writes the cursor-position response to the input  *)
(* of the session registered under its id, after its insert and the delay, *)
(* and returns the pid whatever that write returns: Ok, an IO error, or    *)
(* NotFound when the entry has gone meanwhile; for the other agent types   *)
(* spawn returns at the insert and writes nothing.                         *)
(***************************************************************************)
C19_WorkaroundBestEffort ==
    /\ [][\A t \in Callers :
            (pc[t] = "sp_sleep" /\ pc'[t] /= "sp_sleep")
               => /\ req[t].agent = "Codex"
                  /\ last'.op = "spawn" /\ last'.id = req[t].id /\ last'.res = "Ok"
                  /\ last'.wrote \in {"Ok", "Io", "NotFound"}
                  /\ last'.wrote = "NotFound" <=> req[t].id \notin Registered
                  /\ sessions' = sessions]_vars
    /\ [][\A t \in Callers :
            (pc[t] = "sp_insert" /\ pc'[t] /= "sp_insert")
               => /\ req[t].id \in DOMAIN sessions'
                  /\ IF req[t].agent = "Codex"
                        THEN pc'[t] = "sp_sleep"
                        ELSE /\ pc'[t] = "idle"
                             /\ last'.op = "spawn" /\ last'.res = "Ok" /\ last'.wrote = "-"]_vars

\* A Codex spawn returned Ok although its write found no entry: the session was
\* terminated during the delay.
C19_Witness ==
    /\ last.op = "spawn" /\ last.res = "Ok" /\ last.wrote = "NotFound"
    /\ \E c \in Children : tlog[c] /= << >>

(***************************************************************************)
(* C20: resize of a registered id passes rows and cols to the PTY as they  *)
(* are, 0 included, with pixel sizes 0; it returns Pty exactly when that   *)
(* call fails, Ok otherwise, and changes nothing of the session or the     *)
(* registry.                                                               *)
(***************************************************************************)
C20_ResizeVerbatim ==
    [][\A id \in Registered, rows \in Dims, cols \in Dims, ok \in BOOLEAN :
          Resize(id, rows, cols, ok)
             => /\ last'.op = "resize" /\ last'.id = id
                /\ last'.sent = {[rows |-> rows, cols |-> cols,
                                  pixel_width |-> 0, pixel_height |-> 0]}
                /\ last'.res = (IF ok THEN "Ok" ELSE "Pty")
                /\ UNCHANGED <<sessions, proc, batcher, tlog, lock, pc, req, held>>]_vars

\* A resize to 0 rows was passed on as 0 rows and returned Ok.
C20_Witness ==
    /\ last.op = "resize" /\ last.res = "Ok"
    /\ last.id \in Registered
    /\ \E size \in last.sent : size.rows = 0 /\ size.cols = 65535

(***************************************************************************)
(* C21: no call keeps the registry lock longer than its own lookup or      *)
(* mutation: while terminate(id) is in its grace period, a call on another *)
(* id (write, resize, is_running, terminate, the insert of a spawn) can    *)
(* take the lock and complete.                                             *)
(***************************************************************************)
C21_LockOnlyForLookup ==
    \A id \in Ids, other \in Ids, t \in Callers :
        (Terminating(id) /\ other /= id)
           => /\ pc[t] = "idle"
                    => /\ ENABLED Write(other, TRUE)
                       /\ ENABLED Resize(other, 0, 0, TRUE)
                       /\ ENABLED IsRunning(other, TRUE)
                       /\ ENABLED TermBegin(t, other)
              /\ (pc[t] = "sp_insert" /\ req[t].id = other) => ENABLED SpawnInsert(t)

(***************************************************************************)
(* C22: the reader task never takes the registry lock.  It can start as    *)
(* soon as spawn has handed it its reader, before the session is inserted; *)
(* while it is in its loop its read and its way out are enabled whoever    *)
(* holds the lock, a terminate in its grace period included; none of its   *)
(* steps changes the lock or the registry; so it may emit output and the   *)
(* ended event while its id has no entry yet.                              *)
(***************************************************************************)
C22_BatcherOffTheLock ==
    /\ [](\A t \in Callers :
             (pc[t] = "sp_insert" /\ rtask = "none") => ENABLED TaskStart(held[t]))
    /\ [](rtask = "reading"
             => /\ \A how \in {"eof", "error"} : ENABLED ReaderStops(how)
                /\ Len(emitted) < MaxOutputs
                      => \A n \in StreamSizes : ENABLED ReaderRead(n))
    /\ [][readerVars' /= readerVars => UNCHANGED <<lock, sessions, pc>>]_vars

\* The task of a session not yet inserted has emitted output and the ended event
\* while another caller's terminate held the lock in its grace period.
C22_Witness ==
    \E t \in Callers :
        /\ pc[t] = "sp_insert" /\ held[t] = rchild
        /\ rid = req[t].id /\ rid \notin Registered
        /\ lock \in Callers \ {t}
        /\ Len(emitted) >= 2
        /\ emitted[1].event = "terminal_output"
        /\ emitted[Len(emitted)] = Ended(rid)

(***************************************************************************)
(* C23: once a reader task has stopped on a read error and emitted the     *)
(* ended event of its id, is_running of that id returns false.             *)
(***************************************************************************)
C23_ReadErrorMeansNotRunning ==
    [][(/\ rtask = "error"
        /\ \E i \in 1..Len(emitted) : emitted[i] = Ended(rid)
        /\ Did("is_running") /\ last'.id = rid)
          => last'.res = "false"]_vars

C25_NoOrphans ==
    \A c \in Children :
        proc[c] = "running" => (IdsOf(c) /= {} \/ \E t \in Callers : held[t] = c)

(***************************************************************************)
(* C26: the reader task neither loses, duplicates nor reorders output: at  *)
(* every moment the payloads of its output events, concatenated in         *)
(* emission order and followed by the pending batch, are the bytes its     *)
(* reads returned, in order; once it has stopped on end-of-stream or on a  *)
(* read error nothing is pending; each output event carries the payload    *)
(* event by event, and no payload is empty.                                *)
(***************************************************************************)
C26_NothingLostOrReordered ==
    /\ Flat(payloads) \o content = [k \in 1..Len(reads) |-> Chunk(k, reads[k])]
    /\ Stopped => content = << >>
    /\ batch = Size(content)
    /\ Len(Outputs) = Len(payloads)
    /\ \A i \in 1..Len(Outputs) :
          Outputs[i].len = Size(payloads[i]) /\ Outputs[i].len > 0

\* A task that stopped on end-of-stream after three reads: the first flushed by
\* size, the other two emitted together as the remainder.
C26_Witness ==
    /\ rtask = "eof"
    /\ reads = <<BATCH_SIZE, 1000, 1000>>
    /\ payloads = << <<Chunk(1, BATCH_SIZE)>>, <<Chunk(2, 1000), Chunk(3, 1000)>> >>
    /\ emitted = <<Output(rid, BATCH_SIZE), Output(rid, 2000), Ended(rid)>>

(***************************************************************************)
(* C27: the pending batch is bounded: before every read the task holds     *)
(* fewer than BATCH_SIZE pending bytes, a read adds at most BATCH_SIZE     *)
(* bytes, and every output event carries at most 2 * BATCH_SIZE - 1 bytes. *)
(***************************************************************************)
C27_BatchBounded ==
    /\ [](rtask = "reading" => batch < BATCH_SIZE)
    /\ [][reads' /= reads => /\ reads'[Len(reads')] <= BATCH_SIZE
                             /\ batch' <= batch + BATCH_SIZE]_vars
    /\ [](\A i \in 1..Len(emitted) : emitted[i].len <= 2 * BATCH_SIZE - 1)

\* An output event of 2 * BATCH_SIZE - 1 bytes: BATCH_SIZE - 1 pending, then a
\* read that fills the buffer.
C27_Witness ==
    /\ \E i \in 1..Len(emitted) : emitted[i] = Output(rid, 2 * BATCH_SIZE - 1)
    /\ reads = <<BATCH_SIZE - 1, BATCH_SIZE>>

(***************************************************************************)
(* C28: session isolation.  A write, resize, is_running or terminate       *)
(* called with one id uses no handle of the session registered under       *)
(* another id and leaves that session as it was: its entry, its child,     *)
(* its reader task, and no signal sent to it.  A reader task tags every    *)
(* event with the id of the session it was started for.                    *)
(***************************************************************************)
C28_SessionIsolation ==
    /\ [][\A id \in Ids :
            CalledOn(id)
               => \A b \in Registered \ {id} :
                     LET c == sessions[b].child
                     IN  /\ b \in DOMAIN sessions' /\ sessions'[b] = sessions[b]
                         /\ proc'[c] = proc[c]
                         /\ batcher'[c] = batcher[c]
                         /\ tlog'[c] = tlog[c]
                         /\ last' /= last => c \notin last'.on]_vars
    /\ [](\A i \in 1..Len(emitted) : emitted[i].id = rid)

\* A terminate of one id has returned after its teardown; the session of the
\* other id is registered and untouched, and its reader task has emitted output.
C28_Witness ==
    /\ last.op = "terminate" /\ last.on /= {} /\ last.id /= rid
    /\ rid \in Registered /\ sessions[rid].child = rchild
    /\ batcher[rchild] = "running" /\ tlog[rchild] = << >>
    /\ \E i \in 1..Len(emitted) : emitted[i].event = "terminal_output"

(***************************************************************************)
(* C29: concurrent writes to one session are atomic with respect to each   *)
(* other: a write does its write_all and flush holding the registry lock,  *)
(* so while a call is between its parts nothing else reaches any input     *)
(* stream, and on every stream the second part of a call directly follows  *)
(* the first part of the same call: blocks in some order, never            *)
(* interleaved.                                                            *)
(***************************************************************************)
C29_WritesNotInterleaved ==
    /\ [](\A t \in Callers : pc[t] \in {"wr_all", "wr_rest"} => lock = t)
    /\ [](\A c \in Children : \A i \in 1..Len(wire[c]) :
             wire[c][i][2] = 2 => (i > 1 /\ wire[c][i - 1] = <<wire[c][i][1], 1>>))
    /\ [][\A t \in Callers :
            pc[t] = "wr_rest"
               => \A c \in Children :
                     wire'[c] /= wire[c]
                        => c = held[t] /\ wire'[c] = Append(wire[c], <<t, 2>>)]_vars

\* Two write calls of different callers have reached one session's input
\* stream, each as one block.
C29_Witness ==
    \E c \in Children, t \in Callers, u \in Callers :
        /\ t /= u
        /\ wire[c] = << <<t, 1>>, <<t, 2>>, <<u, 1>>, <<u, 2>> >>
        /\ last.op = "write" /\ last.res = "Ok" /\ last.on = {c}

(***************************************************************************)
(* C30: the manager is deadlock-free.  No call waits for the registry lock *)
(* while holding it: the only call that keeps the lock across an await is  *)
(* terminate in its grace period, and a spawn holds nothing between its    *)
(* insert and its workaround write.  Under the runtime's scheduling every  *)
(* call in progress returns and every lock taken is released, whatever     *)
(* the other callers do.                                                   *)
(***************************************************************************)
C30_DeadlockFree ==
    /\ [](\A t \in Callers : lock = t => pc[t] = "tm_sleep")
    /\ [](\A t \in Callers : pc[t] \in {"sp_insert", "sp_sleep"} => lock /= t)
    /\ \A t \in Callers : (pc[t] /= "idle") ~> (pc[t] = "idle")
    /\ (lock /= NoLock) ~> (lock = NoLock)

\* A Codex spawn past its insert waits to write while another caller's terminate
\* holds the lock in its grace period.
C30_Witness ==
    \E t \in Callers, u \in Callers :
        /\ pc[t] = "sp_sleep" /\ pc[u] = "tm_sleep" /\ lock = u
        /\ req[t].id \notin Registered

====
